---- MODULE Spec2Model ----
(***************************************************************************)
(* tree-sitter-lint-lsp: the document store of the language server         *)
(* (src/src/main.rs).  A document is a ropey::Rope (`contents`) and a      *)
(* tree_sitter::Tree (`tree`) kept in a DashMap keyed by the document's    *)
(* Url.  did_open and did_change mutate an entry and then lint it and      *)
(* publish the diagnostics.                                                *)
(*                                                                         *)
(* Text is a sequence of characters.  Three characters stand for the       *)
(* three kinds the coordinate arithmetic distinguishes:                    *)
(*   "a"  a one-byte character (one UTF-8 byte, one UTF-16 unit)           *)
(*   "\n" the line feed (one byte), the line break                         *)
(*   "g"  a character outside the BMP (four UTF-8 bytes, two UTF-16       *)
(*        units, one Rope char)                                            *)
(***************************************************************************)
EXTENDS Integers, Sequences, FiniteSets, TLC

Chars == {"a", "\n", "g"}

\* ---------------------------------------------------------------- bounds
MaxLen == 3         \* longest buffer, in chars
MaxIns == 1         \* longest text of a ranged change, in chars
MaxLine == 1        \* largest Position.line the client sends
MaxCol == 2         \* largest Position.character the client sends
MaxChanges == 2     \* most content changes in one notification
MaxTasks == 3       \* events delivered to the server
MaxViolations == 2  \* most violations the lint engine returns for one run

\* ------------------------------------------------------------ characters
\* str::len / Rope::char_to_byte count UTF-8 bytes.
Utf8Len(c) == IF c = "g" THEN 4 ELSE 1

\* The client counts Position.character in UTF-16 code units (the server
\* negotiates no other position encoding in `initialize`).
Utf16Len(c) == IF c = "g" THEN 2 ELSE 1

RECURSIVE SumUtf8(_)
SumUtf8(s) == IF s = <<>> THEN 0 ELSE Utf8Len(Head(s)) + SumUtf8(Tail(s))

RECURSIVE SumUtf16(_)
SumUtf16(s) == IF s = <<>> THEN 0 ELSE Utf16Len(Head(s)) + SumUtf16(Tail(s))

RECURSIVE CountBreaks(_)
CountBreaks(s) ==
    IF s = <<>> THEN 0
    ELSE (IF Head(s) = "\n" THEN 1 ELSE 0) + CountBreaks(Tail(s))

\* All sequences over S of length at most n.
SeqsUpTo(S, n) == UNION {[1..k -> S] : k \in 0..n}

\* ------------------------------------------------------------------ Rope
\* ropey::Rope, by the operations main.rs calls.  `r` is the sequence of
\* the rope's chars; indices are 0-based as in the code.
len_chars(r) == Len(r)

len_bytes(r) == SumUtf8(r)

len_lines(r) == CountBreaks(r) + 1

\* Rope::char_to_byte; panics when char_idx > len_chars.
char_to_byte_ok(r, char_idx) == char_idx <= len_chars(r)

char_to_byte(r, char_idx) == SumUtf8(SubSeq(r, 1, char_idx))

\* Rope::line_to_char; panics when line_idx > len_lines.  Line len_lines
\* (one past the last) is the end of the text.
line_to_char_ok(r, line_idx) == line_idx <= len_lines(r)

line_to_char(r, line_idx) ==
    IF line_idx = 0 THEN 0
    ELSE IF line_idx >= len_lines(r) THEN len_chars(r)
    ELSE CHOOSE k \in 1..Len(r) :
            r[k] = "\n" /\ CountBreaks(SubSeq(r, 1, k)) = line_idx

\* Rope::line_to_byte.
line_to_byte(r, line_idx) == char_to_byte(r, line_to_char(r, line_idx))

\* Rope::byte_to_line; panics when byte_idx > len_bytes.  The line of a
\* byte is the number of line breaks that end at or before it.
byte_to_line_ok(r, byte_idx) == byte_idx <= len_bytes(r)

byte_to_line(r, byte_idx) ==
    Cardinality({k \in 1..Len(r) :
        r[k] = "\n" /\ char_to_byte(r, k) <= byte_idx})

\* The removal of start..=end, one char too many.
remove_inclusive(r, start, end) ==
    SubSeq(r, 1, start) \o SubSeq(r, end + 2, Len(r))

\* Rope::remove(start..end); panics when start > end or end > len_chars.
remove_ok(r, start, end) == start <= end /\ end <= len_chars(r)

remove(r, start, end) == SubSeq(r, 1, start) \o SubSeq(r, end + 1, Len(r))

\* Rope::insert(char_idx, text); panics when char_idx > len_chars.
insert_ok(r, char_idx) == char_idx <= len_chars(r)

insert(r, char_idx, text) ==
    SubSeq(r, 1, char_idx) \o text \o SubSeq(r, char_idx + 1, Len(r))

\* The bytes of a text: byte j of char c is <<c, j>>.
RECURSIVE Bytes(_)
Bytes(r) ==
    IF r = <<>> THEN <<>>
    ELSE [j \in 1..Utf8Len(Head(r)) |-> <<Head(r), j>>] \o Bytes(Tail(r))

\* ----------------------------------------------------------- coordinates
\* lsp_types::Position / tree_sitter::Point / lsp_types::Range.
Position(line, character) == [line |-> line, character |-> character]

Point(row, column) == [row |-> row, column |-> column]

lsp_position_to_char_offset_ok(file_contents, position) ==
    line_to_char_ok(file_contents, position.line)

lsp_position_to_char_offset(file_contents, position) ==
    line_to_char(file_contents, position.line) + position.character

position_to_point(position) ==
    Point(position.line, position.character)

point_to_position(point) ==
    Position(point.row, point.column)

byte_offset_to_point_ok(file_contents, byte_offset) ==
    byte_to_line_ok(file_contents, byte_offset)

\* The point with the byte offset itself as its column.
byte_offset_to_point_of_offset(file_contents, byte_offset) ==
    Point(byte_to_line(file_contents, byte_offset), byte_offset)

byte_offset_to_point(file_contents, byte_offset) ==
    LET line_num == byte_to_line(file_contents, byte_offset)
        start_of_line_byte_offset == line_to_byte(file_contents, line_num)
    IN  Point(line_num, byte_offset - start_of_line_byte_offset)

\* The range with its end taken from the start byte.
tree_sitter_range_to_lsp_range_of_start(file_contents, range) ==
    [start |-> point_to_position(
                   byte_offset_to_point(file_contents, range.start_byte)),
     end |-> point_to_position(
                   byte_offset_to_point(file_contents, range.start_byte))]

tree_sitter_range_to_lsp_range(file_contents, range) ==
    [start |-> point_to_position(
                   byte_offset_to_point(file_contents, range.start_byte)),
     end |-> point_to_position(
                   byte_offset_to_point(file_contents, range.end_byte))]

\* ------------------------------------------------------------------ Tree
\* tree_sitter::Tree as this program uses it: `src` is the text the parser
\* read, `leaves` the byte ranges of its leaves in order (the grammar's
\* tokens stand one per character).  tree_sitter::InputEdit is a record of
\* the six fields main.rs fills in.
Leaf(start_byte, end_byte, has_changes) ==
    [start_byte |-> start_byte, end_byte |-> end_byte,
     has_changes |-> has_changes]

\* The leaves the parser lexes from the bytes [from, to) of `contents`.
Lex(contents, from, to) ==
    LET starts(k) == char_to_byte(contents, k - 1)
        InRegion(k) == from <= starts(k) /\ starts(k) < to
        ks == SelectSeq([k \in 1..Len(contents) |-> k], InRegion)
    IN  [j \in 1..Len(ks) |->
            Leaf(starts(ks[j]), starts(ks[j]) + Utf8Len(contents[ks[j]]),
                 FALSE)]

\* Tree::edit: a leaf that ends before the edit keeps its place, a leaf
\* that starts after the old end moves by the edit's change of length, a
\* leaf the edit touches is marked changed.
edit(tree, input_edit) ==
    LET Edited(leaf) ==
            IF leaf.end_byte < input_edit.start_byte THEN leaf
            ELSE IF leaf.start_byte > input_edit.old_end_byte
            THEN Leaf(leaf.start_byte - input_edit.old_end_byte
                        + input_edit.new_end_byte,
                      leaf.end_byte - input_edit.old_end_byte
                        + input_edit.new_end_byte,
                      FALSE)
            ELSE Leaf(leaf.start_byte, leaf.end_byte, TRUE)
    IN  [src |-> tree.src,
         leaves |-> [j \in 1..Len(tree.leaves) |-> Edited(tree.leaves[j])]]

NoTree == [src |-> <<"?">>, leaves |-> <<>>]

\* fn parse: Parser::parse with the old tree as a hint.  The leaves of the
\* old tree that the edit left unchanged are reused where they stand (those
\* before the first changed leaf, and those after the last one); the bytes
\* in between are lexed from `contents`.  Without an old tree everything is
\* lexed.
parse(contents, old_tree) ==
    IF old_tree = NoTree
    THEN [src |-> contents, leaves |-> Lex(contents, 0, len_bytes(contents))]
    ELSE
      LET old == old_tree.leaves
          changed == {j \in 1..Len(old) : old[j].has_changes}
          first == IF changed = {} THEN Len(old) + 1
                   ELSE CHOOSE j \in changed : \A i \in changed : j <= i
          last == IF changed = {} THEN Len(old)
                  ELSE CHOOSE j \in changed : \A i \in changed : j >= i
          before == SubSeq(old, 1, first - 1)
          after == SubSeq(old, last + 1, Len(old))
          from == IF before = <<>> THEN 0 ELSE before[Len(before)].end_byte
          to == IF after = <<>> THEN len_bytes(contents)
                ELSE after[1].start_byte
      IN  [src |-> contents,
           leaves |-> before \o Lex(contents, from, to) \o after]

parse_from_scratch(contents) == parse(contents, NoTree)

\* The text a tree describes: the bytes of `contents` that its leaves
\* cover, in leaf order.
RECURSIVE LeafBytes(_, _)
LeafBytes(leaves, bytes) ==
    IF leaves = <<>> THEN <<>>
    ELSE SubSeq(bytes, Head(leaves).start_byte + 1, Head(leaves).end_byte)
            \o LeafBytes(Tail(leaves), bytes)

TreeText(tree, contents) == LeafBytes(tree.leaves, Bytes(contents))

\* ----------------------------------------------------- the client's view
\* The client keeps each document as a plain string and describes a ranged
\* change by Positions into it: a line, and an offset in UTF-16 units into
\* that line.  A Position is in bounds when it names a char boundary of an
\* existing line, the line's break excluded.
EditorLineStart(text, line) ==
    CHOOSE k \in 0..Len(text) :
        /\ CountBreaks(SubSeq(text, 1, k)) = line
        /\ (k = 0 \/ text[k] = "\n")

EditorOffsets(text, position) ==
    IF position.line > CountBreaks(text) THEN {}
    ELSE LET ls == EditorLineStart(text, position.line)
         IN  {k \in ls..Len(text) :
                /\ CountBreaks(SubSeq(text, ls + 1, k)) = 0
                /\ SumUtf16(SubSeq(text, ls + 1, k)) = position.character}

EditorOffset(text, position) ==
    CHOOSE k \in EditorOffsets(text, position) : TRUE

EditorRangeValid(text, range) ==
    /\ EditorOffsets(text, range.start) # {}
    /\ EditorOffsets(text, range.end) # {}
    /\ EditorOffset(text, range.start) <= EditorOffset(text, range.end)

\* Remove the range, insert the new text at the range's start.
NaiveSplice(text, range, new_text) ==
    SubSeq(text, 1, EditorOffset(text, range.start))
        \o new_text
        \o SubSeq(text, EditorOffset(text, range.end) + 1, Len(text))

NoText == [open |-> FALSE, text |-> <<>>]

EditorText(text) == [open |-> TRUE, text |-> text]

\* The client's text after a content change; NoText once a range was not
\* in bounds of the client's text.
EditorApply(doc, change) ==
    IF ~change.ranged THEN EditorText(change.text)
    ELSE IF doc.open /\ EditorRangeValid(doc.text, change.range)
    THEN EditorText(NaiveSplice(doc.text, change.range, change.text))
    ELSE NoText

\* ----------------------------------------------------------------- state
Docs == {"A", "B"}      \* the Urls the client uses

Tasks == 1..MaxTasks    \* the handler futures, in arrival order

NoEntry == [contents |-> <<"?">>, tree |-> NoTree]

NoEdit == [start_byte |-> 0, old_end_byte |-> 0, new_end_byte |-> 0,
           start_position |-> Point(0, 0), old_end_position |-> Point(0, 0),
           new_end_position |-> Point(0, 0), ranged |-> FALSE]

NoEvent == [kind |-> "none", uri |-> "A", changes |-> <<>>]

VARIABLES
    per_file,    \* Backend.per_file: Url -> PerFileState, NoEntry if absent
    shard,       \* the DashMap shard each Url hashes to
    guard,       \* the DashMap guard each task holds: none, ref, refmut
    pc,          \* where each handler future stands
    ev,          \* the parameters of each task's notification
    idx,         \* did_change: the 1-based index of the next content change
    input_edit,  \* did_change: the InputEdit built for the current change
    before,      \* did_change: the entry as get_mut found it
    violations,  \* run_linting: what run_for_slice returned
    diagnostics, \* run_linting: the Vec<Diagnostic> handed to the client
    running,     \* the task the server's thread is executing, 0 if none
    client,      \* the diagnostics the client last received per Url
    npub,        \* the publishDiagnostics notifications each task has sent
    editor       \* the client's own text of each document

vars == <<per_file, shard, guard, pc, ev, idx, input_edit, before, violations,
          diagnostics, running, client, npub, editor>>

NoPublication == <<[message |-> "none"]>>

Init ==
    /\ per_file = [d \in Docs |-> NoEntry]
    /\ shard \in {[d \in Docs |-> 1], [d \in Docs |-> IF d = "A" THEN 1 ELSE 2]}
    /\ guard = [t \in Tasks |-> "none"]
    /\ pc = [t \in Tasks |-> "new"]
    /\ ev = [t \in Tasks |-> NoEvent]
    /\ idx = [t \in Tasks |-> 0]
    /\ input_edit = [t \in Tasks |-> NoEdit]
    /\ before = [t \in Tasks |-> NoEntry]
    /\ violations = [t \in Tasks |-> <<>>]
    /\ diagnostics = [t \in Tasks |-> <<>>]
    /\ running = 0
    /\ client = [d \in Docs |-> NoPublication]
    /\ npub = [t \in Tasks |-> 0]
    /\ editor = [d \in Docs |-> NoText]

\* ----------------------------------------------------------------- locks
\* DashMap locks a whole shard: get_mut and insert take the shard's lock
\* exclusively, get takes it shared.  A guard lives until it is dropped.
Holds(t, s) == guard[t] # "none" /\ shard[ev[t].uri] = s

\* A map whose writers take no lock.
can_write_unlocked(t, uri) == TRUE

can_write(t, uri) ==
    \A u \in Tasks \ {t} : ~Holds(u, shard[uri])

can_read(t, uri) ==
    \A u \in Tasks \ {t} : ~(Holds(u, shard[uri]) /\ guard[u] = "refmut")

\* The server's one thread polls a handler future for the first time in
\* arrival order, and only when no other future is executing.
CanStart(t) ==
    /\ running = 0
    /\ pc[t] = "new"
    /\ \A u \in Tasks : u < t => pc[u] # "new"


\* --------------------------------------------------------------- did_open
PerFileState(contents, tree) == [contents |-> contents, tree |-> tree]

\* Lines 87-94: the entry did_open inserts for a text.
opened(text) == PerFileState(text, parse_from_scratch(text))

Stop(t, where) ==
    /\ pc' = [pc EXCEPT ![t] = where]
    /\ guard' = [guard EXCEPT ![t] = "none"]

\* did_open up to the call of run_linting_and_report_diagnostics:
\* per_file.insert of a fresh PerFileState.  insert waits for the shard.
did_open(t, uri, text) ==
    /\ CanStart(t)
    /\ running' = t
    /\ ev' = [ev EXCEPT ![t] = [kind |-> "open", uri |-> uri,
                                 changes |-> <<>>]]
    /\ IF can_write(t, uri)
       THEN /\ per_file' = [per_file EXCEPT ![uri] = opened(text)]
            /\ editor' = [editor EXCEPT ![uri] = EditorText(text)]
            /\ pc' = [pc EXCEPT ![t] = "lint"]
       ELSE /\ pc' = [pc EXCEPT ![t] = "blocked"]
            /\ UNCHANGED <<per_file, editor>>
    /\ UNCHANGED <<shard, guard, idx, input_edit, before, violations,
                   diagnostics, client, npub>>

\* ------------------------------------------------------------- did_change
\* A lookup that makes the missing entry instead of failing.
loaded_or_inserted(uri) == TRUE

\* Lines 102-105: get_mut(uri) is Some.
loaded(uri) == per_file[uri] # NoEntry

\* did_change, lines 102-105: get_mut waits for the shard, and expect
\* panics when the Url has no entry.
did_change(t, uri, changes) ==
    /\ CanStart(t)
    /\ running' = t
    /\ ev' = [ev EXCEPT ![t] = [kind |-> "change", uri |-> uri,
                                 changes |-> changes]]
    /\ IF ~can_write(t, uri)
       THEN /\ pc' = [pc EXCEPT ![t] = "blocked"]
            /\ UNCHANGED <<guard, idx, before>>
       ELSE IF ~loaded(uri)
       THEN /\ pc' = [pc EXCEPT ![t] = "panicked"]
            /\ UNCHANGED <<guard, idx, before>>
       ELSE /\ pc' = [pc EXCEPT ![t] = "loop"]
            /\ guard' = [guard EXCEPT ![t] = "refmut"]
            /\ idx' = [idx EXCEPT ![t] = 1]
            /\ before' = [before EXCEPT ![t] = per_file[uri]]
    /\ UNCHANGED <<per_file, shard, input_edit, violations, diagnostics,
                   client, npub, editor>>

\* The checks ropey makes in lines 109-115, in the code's order.
ranged_change_ok(contents, range) ==
    /\ lsp_position_to_char_offset_ok(contents, range.start)
    /\ lsp_position_to_char_offset_ok(contents, range.end)
    /\ char_to_byte_ok(contents, lsp_position_to_char_offset(contents, range.start))
    /\ char_to_byte_ok(contents, lsp_position_to_char_offset(contents, range.end))
    /\ remove_ok(contents, lsp_position_to_char_offset(contents, range.start),
                 lsp_position_to_char_offset(contents, range.end))

\* The new text inserted without the range being removed.
ranged_change_contents_without_remove(contents, content_change) ==
    insert(contents,
           lsp_position_to_char_offset(contents, content_change.range.start),
           content_change.text)

\* Lines 109-115: the buffer after remove and insert.
ranged_change_contents(contents, content_change) ==
    LET start_char ==
            lsp_position_to_char_offset(contents, content_change.range.start)
        end_char ==
            lsp_position_to_char_offset(contents, content_change.range.end)
    IN  insert(remove(contents, start_char, end_char), start_char,
               content_change.text)

\* The InputEdit with the inserted text measured in chars, not bytes.
ranged_change_input_edit_chars(contents, new_contents, content_change) ==
    LET range == content_change.range
        start_char == lsp_position_to_char_offset(contents, range.start)
        end_char == lsp_position_to_char_offset(contents, range.end)
        start_byte == char_to_byte(contents, start_char)
        old_end_byte == char_to_byte(contents, end_char)
        new_end_byte == start_byte + len_chars(content_change.text)
    IN  [start_byte |-> start_byte,
         old_end_byte |-> old_end_byte,
         new_end_byte |-> new_end_byte,
         start_position |-> position_to_point(range.start),
         old_end_position |-> position_to_point(range.end),
         new_end_position |-> byte_offset_to_point(new_contents, new_end_byte),
         ranged |-> TRUE]

\* Lines 112-128: the InputEdit.  `contents` is the buffer before remove
\* and insert, `new_contents` the buffer after them.
ranged_change_input_edit(contents, new_contents, content_change) ==
    LET range == content_change.range
        start_char == lsp_position_to_char_offset(contents, range.start)
        end_char == lsp_position_to_char_offset(contents, range.end)
        start_byte == char_to_byte(contents, start_char)
        old_end_byte == char_to_byte(contents, end_char)
        new_end_byte == start_byte + len_bytes(content_change.text)
    IN  [start_byte |-> start_byte,
         old_end_byte |-> old_end_byte,
         new_end_byte |-> new_end_byte,
         start_position |-> position_to_point(range.start),
         old_end_position |-> position_to_point(range.end),
         new_end_position |-> byte_offset_to_point(new_contents, new_end_byte),
         ranged |-> TRUE]

\* The loop running over the array from its end.
content_change_at_reversed(changes, i) == changes[Len(changes) + 1 - i]

\* Line 106: the loop takes the content changes in the array's order.
content_change_at(changes, i) == changes[i]

\* The tree edited but not parsed again.
reparsed_without_parse(file_state, edit_) == edit(file_state.tree, edit_)

\* Lines 129-130: the tree after a ranged change.
reparsed(file_state, edit_) ==
    parse(file_state.contents, edit(file_state.tree, edit_))

\* The full replacement parsed with the old tree as a hint.
replaced_with_hint(file_state) ==
    parse(file_state.contents, file_state.tree)

\* Line 134: the tree after a full replacement.
replaced(file_state) == parse_from_scratch(file_state.contents)

\* One pass of the loop body up to the assignment of the buffer: lines
\* 109-128 for a ranged change, line 133 for a full replacement.
did_change_apply(t) ==
    LET uri == ev[t].uri
        content_change == content_change_at(ev[t].changes, idx[t])
        contents == per_file[uri].contents
    IN
    /\ running = t
    /\ pc[t] = "loop"
    /\ idx[t] <= Len(ev[t].changes)
    /\ IF ~content_change.ranged
       THEN /\ per_file' = [per_file EXCEPT ![uri].contents = content_change.text]
            /\ input_edit' = [input_edit EXCEPT ![t] = NoEdit]
            /\ pc' = [pc EXCEPT ![t] = "edited"]
            /\ UNCHANGED guard
       ELSE IF ranged_change_ok(contents, content_change.range)
       THEN LET new_contents == ranged_change_contents(contents, content_change)
            IN  /\ per_file' = [per_file EXCEPT ![uri].contents = new_contents]
                /\ input_edit' = [input_edit EXCEPT ![t] =
                        ranged_change_input_edit(contents, new_contents,
                                                 content_change)]
                /\ pc' = [pc EXCEPT ![t] = "edited"]
                /\ UNCHANGED guard
       ELSE /\ Stop(t, "panicked")
            /\ UNCHANGED <<per_file, input_edit>>
    /\ editor' = [editor EXCEPT ![uri] = EditorApply(editor[uri], content_change)]
    /\ UNCHANGED <<shard, ev, idx, before, violations, diagnostics, running,
                   client, npub>>

\* The rest of the loop body: lines 129-130 (edit the tree, parse with
\* it) for a ranged change, line 134 for a full replacement.
did_change_reparse(t) ==
    LET uri == ev[t].uri
        file_state == per_file[uri]
    IN
    /\ running = t
    /\ pc[t] = "edited"
    /\ per_file' = [per_file EXCEPT ![uri].tree =
            IF input_edit[t].ranged
            THEN reparsed(file_state, input_edit[t])
            ELSE replaced(file_state)]
    /\ input_edit' = [input_edit EXCEPT ![t] = NoEdit]
    /\ idx' = [idx EXCEPT ![t] = idx[t] + 1]
    /\ pc' = [pc EXCEPT ![t] = "loop"]
    /\ UNCHANGED <<shard, guard, ev, before, violations, diagnostics, running,
                   client, npub, editor>>

\* The end of the block followed by a suspension point: the task yields
\* the thread between dropping the RefMut and linting.
did_change_release_yielding(t) ==
    /\ running = t
    /\ pc[t] = "loop"
    /\ idx[t] > Len(ev[t].changes)
    /\ guard' = [guard EXCEPT ![t] = "none"]
    /\ pc' = [pc EXCEPT ![t] = "lint"]
    /\ idx' = [idx EXCEPT ![t] = 0]
    /\ ev' = [ev EXCEPT ![t].changes = <<>>]
    /\ before' = [before EXCEPT ![t] = NoEntry]
    /\ running' = 0
    /\ UNCHANGED <<per_file, shard, input_edit, violations, diagnostics,
                   client, npub, editor>>

\* Line 138: the loop is over, the block ends and drops the RefMut.
did_change_release(t) ==
    /\ running = t
    /\ pc[t] = "loop"
    /\ idx[t] > Len(ev[t].changes)
    /\ guard' = [guard EXCEPT ![t] = "none"]
    /\ pc' = [pc EXCEPT ![t] = "lint"]
    /\ idx' = [idx EXCEPT ![t] = 0]
    /\ ev' = [ev EXCEPT ![t].changes = <<>>]
    /\ before' = [before EXCEPT ![t] = NoEntry]
    /\ UNCHANGED <<per_file, shard, input_edit, violations, diagnostics,
                   running, client, npub, editor>>

\* ----------------------------------- run_linting_and_report_diagnostics
\* What tree_sitter_lint_local::run_for_slice may return for a tree: up to
\* `most` violations, each with the byte range of a run of one or more
\* leaves.
Rules == {"r1", "r2"}

MessageOf(rule) == IF rule = "r1" THEN "m1" ELSE "m2"

NodeBoundaries(tree) ==
    {0} \cup {tree.leaves[j].start_byte : j \in 1..Len(tree.leaves)}
        \cup {tree.leaves[j].end_byte : j \in 1..Len(tree.leaves)}

Violation(rule, start_byte, end_byte) ==
    [message |-> MessageOf(rule), rule |-> rule,
     range |-> [start_byte |-> start_byte, end_byte |-> end_byte]]

run_for_slice(contents, tree, most) ==
    SeqsUpTo({Violation(rule, q[1], q[2]) :
                rule \in Rules,
                q \in {p \in NodeBoundaries(tree) \X NodeBoundaries(tree) :
                            p[1] < p[2]}},
             most)

\* Lines 44-54: the Diagnostic of a violation.
Diagnostic(contents, violation) ==
    [message |-> violation.message,
     range |-> tree_sitter_range_to_lsp_range(contents, violation.range),
     severity |-> "ERROR",
     code |-> violation.rule,
     source |-> "tree-sitter-lint"]

\* The diagnostics collected in the reverse of the engine's order.
Diagnostics_reversed(contents, vs) ==
    [k \in 1..Len(vs) |-> Diagnostic(contents, vs[Len(vs) + 1 - k])]

\* Lines 42-55: violations.into_iter().map(..).collect().
Diagnostics(contents, vs) ==
    [k \in 1..Len(vs) |-> Diagnostic(contents, vs[k])]

\* byte_offset_to_point panics (Rope::byte_to_line) past the buffer's end.
diagnostics_ok(contents, vs) ==
    \A k \in 1..Len(vs) :
        /\ byte_offset_to_point_ok(contents, vs[k].range.start_byte)
        /\ byte_offset_to_point_ok(contents, vs[k].range.end_byte)

\* Lines 32-55: per_file.get(uri).unwrap() takes the shard's lock shared,
\* the engine runs on the entry and the diagnostics are built from it.
run_linting(t, vs) ==
    LET uri == ev[t].uri
        per_file_state == per_file[uri]
    IN
    /\ running = t
    /\ pc[t] = "lint"
    /\ IF ~can_read(t, uri)
       THEN /\ pc' = [pc EXCEPT ![t] = "blocked"]
            /\ UNCHANGED <<guard, violations, diagnostics>>
       ELSE IF per_file_state = NoEntry
              \/ ~diagnostics_ok(per_file_state.contents, vs)
       THEN /\ Stop(t, "panicked")
            /\ UNCHANGED <<violations, diagnostics>>
       ELSE /\ guard' = [guard EXCEPT ![t] = "ref"]
            /\ violations' = [violations EXCEPT ![t] = vs]
            /\ diagnostics' = [diagnostics EXCEPT ![t] =
                    Diagnostics(per_file_state.contents, vs)]
            /\ pc' = [pc EXCEPT ![t] = "publish"]
    /\ UNCHANGED <<per_file, shard, ev, idx, input_edit, before, running,
                   client, npub, editor>>

\* Client::publish_diagnostics completes: the client has the notification,
\* the future returns and drops the Ref (line 59).
Published(t) ==
    /\ client' = [client EXCEPT ![ev[t].uri] = diagnostics[t]]
    /\ npub' = [npub EXCEPT ![t] = npub[t] + 1]
    /\ guard' = [guard EXCEPT ![t] = "none"]
    /\ pc' = [pc EXCEPT ![t] = "done"]
    /\ violations' = [violations EXCEPT ![t] = <<>>]
    /\ diagnostics' = [diagnostics EXCEPT ![t] = <<>>]
    /\ running' = 0
    /\ UNCHANGED <<per_file, shard, ev, idx, input_edit, before, editor>>

\* The first poll with the Ref dropped before the future is awaited.
publish_poll_unguarded(t, ready) ==
    /\ running = t
    /\ pc[t] = "publish"
    /\ IF ready
       THEN Published(t)
       ELSE /\ pc' = [pc EXCEPT ![t] = "awaiting"]
            /\ guard' = [guard EXCEPT ![t] = "none"]
            /\ running' = 0
            /\ UNCHANGED <<per_file, shard, ev, idx, input_edit, before,
                           violations, diagnostics, client, npub, editor>>

\* Lines 39-58, the first poll of publish_diagnostics(..).await: the
\* transport takes the notification at once, or the future is Pending and
\* the task yields the thread with the Ref still alive.
publish_poll(t, ready) ==
    /\ running = t
    /\ pc[t] = "publish"
    /\ IF ready
       THEN Published(t)
       ELSE /\ pc' = [pc EXCEPT ![t] = "awaiting"]
            /\ running' = 0
            /\ UNCHANGED <<per_file, shard, guard, ev, idx, input_edit,
                           before, violations, diagnostics, client, npub,
                           editor>>

\* Line 58: the transport wakes the suspended future.
publish_resume(t) ==
    /\ running = 0
    /\ pc[t] = "awaiting"
    /\ Published(t)

\* ------------------------------------------------------------ the inputs
Positions == {Position(l, c) : l \in 0..MaxLine, c \in 0..MaxCol}

Texts == SeqsUpTo(Chars, MaxLen)

NoRange == [start |-> Position(0, 0), end |-> Position(0, 0)]

\* TextDocumentContentChangeEvent: range (None when ~ranged) and text.
RangedChanges(positions, texts) ==
    {[ranged |-> TRUE, range |-> [start |-> s, end |-> e], text |-> x] :
        s \in positions, e \in positions, x \in texts}

FullChanges(texts) ==
    {[ranged |-> FALSE, range |-> NoRange, text |-> x] : x \in texts}

Changes ==
    RangedChanges(Positions, SeqsUpTo(Chars, MaxIns))
        \cup FullChanges(SeqsUpTo(Chars, MaxIns))

\* The changes of the notifications that carry more than one.
BatchChanges ==
    RangedChanges({Position(0, 0), Position(0, 1)}, SeqsUpTo(Chars, MaxIns))
        \cup FullChanges(SeqsUpTo(Chars, MaxIns))

ChangeLists ==
    SeqsUpTo(Changes, 1) \cup SeqsUpTo(BatchChanges, MaxChanges)

\* The most chars the buffer can hold after the changes, from n chars.
RECURSIVE Growth(_, _)
Growth(n, changes) ==
    IF changes = <<>> THEN n
    ELSE LET m == IF Head(changes).ranged THEN n + Len(Head(changes).text)
                  ELSE Len(Head(changes).text)
         IN  IF m > MaxLen THEN m ELSE Growth(m, Tail(changes))

\* --------------------------------------------------------- specifications
\* The edits of one document: every open, every single change and the
\* batches; the engine finds nothing.
NextEdit ==
    \E t \in Tasks :
        \/ /\ CanStart(t)
           /\ \E text \in Texts : did_open(t, "A", text)
        \/ /\ CanStart(t)
           /\ \E changes \in ChangeLists :
                /\ Growth(Len(per_file["A"].contents), changes) <= MaxLen
                /\ did_change(t, "A", changes)
        \/ did_change_apply(t)
        \/ did_change_reparse(t)
        \/ did_change_release(t)
        \/ run_linting(t, <<>>)
        \/ \E ready \in BOOLEAN : publish_poll(t, ready)
        \/ publish_resume(t)

SpecEdit == Init /\ [][NextEdit]_vars

\* The lint pass of one document: two events, texts of at most MaxLen - 1
\* chars, and an engine that returns up to MaxViolations violations.
LintTexts == SeqsUpTo(Chars, MaxLen - 1)

LintChangeLists ==
    {<<>>} \cup {<<c>> : c \in FullChanges(SeqsUpTo(Chars, MaxIns))}
        \cup {<<c>> : c \in RangedChanges({Position(0, 0), Position(0, 1)},
                                          {<<>>})}

NextLint ==
    \E t \in Tasks :
        \/ /\ CanStart(t)
           /\ t <= 2
           /\ \E text \in LintTexts : did_open(t, "A", text)
        \/ /\ CanStart(t)
           /\ t <= 2
           /\ \E changes \in LintChangeLists : did_change(t, "A", changes)
        \/ did_change_apply(t)
        \/ did_change_reparse(t)
        \/ did_change_release(t)
        \/ \E vs \in run_for_slice(per_file[ev[t].uri].contents,
                                   per_file[ev[t].uri].tree, MaxViolations) :
                run_linting(t, vs)
        \/ publish_poll(t, TRUE)

SpecLint == Init /\ [][NextLint]_vars

\* The server: events on two documents, interleaved at the suspension
\* point of publish_diagnostics; short texts, a few changes, an engine
\* that returns at most one violation.
ServerTexts == {<<>>, <<"a">>}

ServerChanges ==
    {[ranged |-> TRUE,
      range |-> [start |-> Position(0, 0), end |-> Position(0, 0)],
      text |-> <<"g">>],
     [ranged |-> TRUE,
      range |-> [start |-> Position(0, 0), end |-> Position(0, 1)],
      text |-> <<>>],
     [ranged |-> FALSE, range |-> NoRange, text |-> <<"\n">>]}

ServerChangeLists == SeqsUpTo(ServerChanges, MaxChanges)

Next ==
    \E t \in Tasks :
        \/ /\ CanStart(t)
           /\ \E uri \in Docs, text \in ServerTexts : did_open(t, uri, text)
        \/ /\ CanStart(t)
           /\ \E uri \in Docs, changes \in ServerChangeLists :
                /\ Growth(Len(per_file[uri].contents), changes) <= MaxLen
                /\ did_change(t, uri, changes)
        \/ did_change_apply(t)
        \/ did_change_reparse(t)
        \/ did_change_release(t)
        \/ \E vs \in run_for_slice(per_file[ev[t].uri].contents,
                                   per_file[ev[t].uri].tree, 1) :
                run_linting(t, vs)
        \/ \E ready \in BOOLEAN : publish_poll(t, ready)
        \/ publish_resume(t)

Spec == Init /\ [][Next]_vars

\* The server with the client's close events.  Backend does not define
\* did_close, so the event runs the LanguageServer trait's provided
\* method, which returns at once and touches nothing of Backend.
did_close(t, uri) ==
    /\ CanStart(t)
    /\ ev' = [ev EXCEPT ![t] = [kind |-> "close", uri |-> uri,
                                 changes |-> <<>>]]
    /\ pc' = [pc EXCEPT ![t] = "done"]
    /\ editor' = [editor EXCEPT ![uri] = NoText]
    /\ UNCHANGED <<per_file, shard, guard, idx, input_edit, before,
                   violations, diagnostics, running, client, npub>>

NextClose ==
    \/ Next
    \/ \E t \in Tasks :
            /\ CanStart(t)
            /\ \E uri \in Docs : did_close(t, uri)

SpecClose == Init /\ [][NextClose]_vars

\* The documents of the spec's scenarios, char by char: one event opens
\* one of them, a second event edits line 0 of it, and the engine reports
\* nothing or one violation that starts at byte 3.
FnA == <<"f", "n", " ", "a", "(", ")", "{", "}", "\n">>

FnMain ==
    <<"f", "n", " ", "m", "a", "i", "n", "(", ")", "{", "}", "\n">>

Main == <<"m", "a", "i", "n">>

Line1Line2 ==
    <<"l", "i", "n", "e", "1", "\n", "l", "i", "n", "e", "2", "\n">>

LineLine2 == <<"l", "i", "n", "e", "\n", "l", "i", "n", "e", "2", "\n">>

ScenarioTexts == {FnA, Line1Line2, LineLine2}

ScenarioColumns == 3..6

ScenarioChanges ==
    RangedChanges({Position(0, c) : c \in ScenarioColumns}, {<<>>, Main})
        \cup FullChanges({FnA})

ScenarioFindings(contents, tree) ==
    {vs \in run_for_slice(contents, tree, 1) :
        vs = <<>> \/ vs[1].range.start_byte = 3}

NextScenario ==
    \E t \in Tasks :
        \/ /\ CanStart(t)
           /\ t = 1
           /\ \E text \in ScenarioTexts : did_open(t, "A", text)
        \/ /\ CanStart(t)
           /\ t = 2
           /\ \E change \in ScenarioChanges : did_change(t, "A", <<change>>)
        \/ did_change_apply(t)
        \/ did_change_reparse(t)
        \/ did_change_release(t)
        \/ \E vs \in ScenarioFindings(per_file[ev[t].uri].contents,
                                       per_file[ev[t].uri].tree) :
                run_linting(t, vs)
        \/ publish_poll(t, TRUE)

SpecScenario == Init /\ [][NextScenario]_vars

\* Two documents edited in turn: single changes anywhere in line 0, an
\* engine that finds nothing, publications that complete at once.
FrameTexts == {<<>>, <<"a">>, <<"g", "a">>, <<"a", "g", "\n">>}

FrameChanges ==
    RangedChanges({Position(0, c) : c \in 0..MaxCol}, {<<>>, <<"g">>})
        \cup FullChanges({<<"a">>})

NextFrame ==
    \E t \in Tasks :
        \/ /\ CanStart(t)
           /\ \E uri \in Docs, text \in FrameTexts : did_open(t, uri, text)
        \/ /\ CanStart(t)
           /\ \E uri \in Docs, change \in FrameChanges :
                /\ Growth(Len(per_file[uri].contents), <<change>>) <= MaxLen
                /\ did_change(t, uri, <<change>>)
        \/ did_change_apply(t)
        \/ did_change_reparse(t)
        \/ did_change_release(t)
        \/ run_linting(t, <<>>)
        \/ publish_poll(t, TRUE)

SpecFrame == Init /\ [][NextFrame]_vars

\* ================================================================ claims
\* A task stands between the assignment of a document's buffer and the
\* reparse of its tree.
MidChange(d) == \E t \in Tasks : pc[t] = "edited" /\ ev[t].uri = d

\* C1: whenever no handler stands inside the mutation of a document, the
\* text the document's stored tree was parsed from is the document's
\* buffer (after did_open, after every ranged change and after every full
\* replacement).
C1_TreeParsedFromBuffer ==
    \A d \in Docs :
        (per_file[d] # NoEntry /\ ~MidChange(d))
            => per_file[d].tree.src = per_file[d].contents

\* C1's case: a ranged change of a notification has been applied and
\* reparsed, and it changed the buffer.
C1_Witness ==
    \E t \in Tasks :
        /\ pc[t] = "loop"
        /\ idx[t] = 2
        /\ ev[t].changes[1].ranged
        /\ per_file[ev[t].uri].contents # before[t].contents

\* C2: after ranged edits that are all in bounds of the client's text, the
\* buffer, and the text the reparsed tree's leaves read from it, are the
\* client's text, i.e. the text with the same edits spliced in naively; and
\* no such edit makes the handler panic.
C2_RoundTrip ==
    \A d \in Docs :
        (editor[d].open /\ per_file[d] # NoEntry /\ ~MidChange(d))
            => /\ per_file[d].contents = editor[d].text
               /\ TreeText(per_file[d].tree, per_file[d].contents)
                    = Bytes(editor[d].text)
               /\ \A t \in Tasks : ev[t].uri = d => pc[t] # "panicked"

\* C3: the step that ends a full replacement leaves the entry that
\* did_open makes for the change's text, whatever the buffer and tree were,
\* and no InputEdit was built for it.
C3_FullReplaceResets ==
    [][\A t \in Tasks :
        (pc[t] = "edited" /\ pc'[t] = "loop"
            /\ ~ev[t].changes[idx[t]].ranged)
        => /\ per_file'[ev[t].uri] = opened(ev[t].changes[idx[t]].text)
           /\ input_edit[t] = NoEdit]_vars

\* C3's case: a full replacement has ended on a document whose buffer had
\* other text and whose tree had leaves.
C3_Witness ==
    \E t \in Tasks :
        /\ pc[t] = "loop"
        /\ idx[t] = 2
        /\ ~ev[t].changes[1].ranged
        /\ before[t].tree.leaves # <<>>
        /\ before[t].contents # per_file[ev[t].uri].contents
        /\ per_file[ev[t].uri].contents # <<>>

\* One content change delivered as a notification of its own: what lines
\* 106-137 leave in the entry.
NotifyOne(file_state, content_change) ==
    IF content_change.ranged
    THEN LET new_contents ==
                ranged_change_contents(file_state.contents, content_change)
             edit_ == ranged_change_input_edit(file_state.contents,
                                               new_contents, content_change)
         IN  PerFileState(new_contents,
                          parse(new_contents, edit(file_state.tree, edit_)))
    ELSE opened(content_change.text)

RECURSIVE DeliverSeparately(_, _)
DeliverSeparately(file_state, changes) ==
    IF changes = <<>> THEN file_state
    ELSE DeliverSeparately(NotifyOne(file_state, Head(changes)), Tail(changes))

Reversed(seq) == [j \in 1..Len(seq) |-> seq[Len(seq) + 1 - j]]

\* C4: at every pass of the loop the entry is what the changes taken so
\* far, in the array's order, leave when each is delivered as a
\* notification of its own from the entry get_mut found; so it is at the
\* loop's end, for all the changes.
C4_ArrayOrder ==
    \A t \in Tasks :
        pc[t] = "loop"
            => per_file[ev[t].uri]
                = DeliverSeparately(before[t],
                                    SubSeq(ev[t].changes, 1, idx[t] - 1))

\* C4's case: a notification of two ranged changes has been applied, and
\* the other order would have left another entry.
C4_Witness ==
    \E t \in Tasks :
        /\ pc[t] = "loop"
        /\ idx[t] = 3
        /\ ev[t].changes[1].ranged
        /\ ev[t].changes[2].ranged
        /\ ranged_change_ok(before[t].contents, ev[t].changes[2].range)
        /\ per_file[ev[t].uri].contents
            # DeliverSeparately(before[t], Reversed(ev[t].changes)).contents

\* The byte offset of char k of a text, and the (row, column in bytes) of
\* byte b, read off the text's bytes.
ByteOffsetOfChar(text, k) == Len(Bytes(SubSeq(text, 1, k)))

PointOfByte(text, b) ==
    LET breaks == {j \in 1..b : Bytes(text)[j][1] = "\n"}
        line_start == IF breaks = {} THEN 0
                      ELSE CHOOSE j \in breaks : \A i \in breaks : i <= j
    IN  Point(Cardinality(breaks), b - line_start)

\* C5: the InputEdit of a ranged change has start_byte and old_end_byte at
\* the byte offsets, in the buffer before the change, of the chars the
\* range's start and end translate to; new_end_byte is start_byte plus the
\* byte length of the inserted text; new_end_position is the point of
\* new_end_byte in the buffer after the change; and the tree is edited with
\* this InputEdit and then parsed.
C5_Descriptor ==
    [][\A t \in Tasks :
        LET uri == ev[t].uri
            content_change == ev[t].changes[idx[t]]
            pre == per_file[uri].contents
            post == per_file'[uri].contents
        IN
        /\ (pc[t] = "loop" /\ pc'[t] = "edited" /\ content_change.ranged)
            => /\ input_edit'[t].start_byte = ByteOffsetOfChar(pre,
                    lsp_position_to_char_offset(pre, content_change.range.start))
               /\ input_edit'[t].old_end_byte = ByteOffsetOfChar(pre,
                    lsp_position_to_char_offset(pre, content_change.range.end))
               /\ input_edit'[t].new_end_byte = input_edit'[t].start_byte
                    + Len(Bytes(content_change.text))
               /\ input_edit'[t].new_end_position
                    = PointOfByte(post, input_edit'[t].new_end_byte)
        /\ (pc[t] = "edited" /\ pc'[t] = "loop" /\ content_change.ranged)
            => per_file'[uri].tree
                = parse(pre, edit(per_file[uri].tree, input_edit[t]))]_vars

\* C5's case: a ranged change that removed and inserted text across a
\* line break has its InputEdit built.
C5_Witness ==
    \E t \in Tasks :
        /\ pc[t] = "edited"
        /\ input_edit[t].ranged
        /\ input_edit[t].start_byte > 0
        /\ input_edit[t].old_end_byte > input_edit[t].start_byte
        /\ input_edit[t].new_end_byte > input_edit[t].start_byte
        /\ input_edit[t].new_end_position.row > 0

\* C6: for every byte offset on a char boundary of a buffer, translating
\* it to a point, the point to a Position and the Position to a char
\* offset gives the index of the char at that byte.
C6_InverseLaw ==
    \A d \in Docs :
        per_file[d] # NoEntry =>
            \A k \in 0..Len(per_file[d].contents) :
                lsp_position_to_char_offset(per_file[d].contents,
                    point_to_position(byte_offset_to_point(
                        per_file[d].contents,
                        ByteOffsetOfChar(per_file[d].contents, k)))) = k

\* C7: the range of the diagnostic built for a violation with the byte
\* range [s, e) starts at (the line containing byte s, s minus the byte
\* offset of that line's start) and ends at the same for e; row and column
\* go to line and character unchanged.
C7_DiagnosticRange ==
    \A t \in Tasks :
        pc[t] \in {"publish", "awaiting"} =>
            /\ Len(diagnostics[t]) = Len(violations[t])
            /\ \A k \in 1..Len(violations[t]) :
                LET contents == per_file[ev[t].uri].contents
                    from == PointOfByte(contents,
                                        violations[t][k].range.start_byte)
                    to == PointOfByte(contents,
                                      violations[t][k].range.end_byte)
                IN  diagnostics[t][k].range =
                        [start |-> [line |-> from.row,
                                    character |-> from.column],
                         end |-> [line |-> to.row,
                                  character |-> to.column]]

\* C7's case: a diagnostic is built for a violation that starts after a
\* four-byte char of line 0 or ends inside line 1.
C7_Witness ==
    \E t \in Tasks :
        /\ pc[t] = "publish"
        /\ \E k \in 1..Len(diagnostics[t]) :
            \/ diagnostics[t][k].range.start.character = 4
            \/ /\ diagnostics[t][k].range.start.line = 0
               /\ diagnostics[t][k].range.end.line = 1
               /\ diagnostics[t][k].range.end.character = 1

\* C8: a task has published once when its handler is done and not before;
\* the step that completes a handler hands the client, for the handler's
\* document and no other, the whole list of this run: one diagnostic per
\* violation in the engine's order, with the violation's message, severity
\* ERROR, the rule's name as code and the source "tree-sitter-lint".
C8_Publication ==
    /\ [](\A t \in Tasks : npub[t] = IF pc[t] = "done" THEN 1 ELSE 0)
    /\ [][\A t \in Tasks :
            (pc[t] # "done" /\ pc'[t] = "done") =>
                /\ \A d \in Docs \ {ev[t].uri} : client'[d] = client[d]
                /\ Len(client'[ev[t].uri]) = Len(violations[t])
                /\ \A k \in 1..Len(violations[t]) :
                    /\ client'[ev[t].uri][k].message = violations[t][k].message
                    /\ client'[ev[t].uri][k].code = violations[t][k].rule
                    /\ client'[ev[t].uri][k].severity = "ERROR"
                    /\ client'[ev[t].uri][k].source = "tree-sitter-lint"
                    /\ client'[ev[t].uri][k].range =
                            diagnostics[t][k].range]_vars

\* C8's case: a did_change has completed after a did_open, and the client
\* holds its two diagnostics, of different rules.
C8_Witness ==
    \E t \in Tasks :
        /\ pc[t] = "done"
        /\ ev[t].kind = "change"
        /\ Len(client[ev[t].uri]) = 2
        /\ client[ev[t].uri][1].code # client[ev[t].uri][2].code

C10_MutualExclusion ==
    /\ [](\A t \in Tasks :
            pc[t] \in {"loop", "edited"} =>
                /\ guard[t] = "refmut"
                /\ \A u \in Tasks \ {t} :
                    /\ ~(guard[u] # "none"
                            /\ shard[ev[u].uri] = shard[ev[t].uri])
                    /\ ~(ev[u].uri = ev[t].uri
                            /\ pc[u] \in {"loop", "edited", "publish",
                                          "awaiting"}))
    /\ [][\A t \in Tasks :
            pc[t] \in {"loop", "edited"} =>
                \A u \in Tasks \ {t} :
                    ev'[u].uri = ev[t].uri => pc'[u] = pc[u]]_vars

\* C10's case: a did_change stands between the two changes of its
\* notification, the buffer of the first one assigned and the tree not yet
\* parsed, while another task is suspended in publish_diagnostics.
C10_Witness ==
    \E t \in Tasks :
        /\ pc[t] = "edited"
        /\ idx[t] = 1
        /\ Len(ev[t].changes) = 2
        /\ \E u \in Tasks \ {t} : pc[u] = "awaiting"

\* C11: when a did_change e2 for an open document is first polled after an
\* earlier did_change e1 for the same document, e1 has finished its
\* mutations, e2 gets the entry as e1 left it, and at the end of e2's loop
\* the entry is that one with e2's changes applied in order.
C11_ArrivalOrder ==
    /\ [][\A e1, e2 \in Tasks :
            (e1 < e2 /\ ev[e1].kind = "change"
                /\ pc[e2] = "new" /\ pc'[e2] # "new"
                /\ ev'[e2].kind = "change" /\ ev'[e2].uri = ev[e1].uri
                /\ per_file[ev[e1].uri] # NoEntry)
            => /\ pc[e1] \in {"awaiting", "done"}
               /\ pc'[e2] = "loop"
               /\ before'[e2] = per_file[ev[e1].uri]]_vars
    /\ [][\A e2 \in Tasks :
            (pc[e2] = "loop" /\ pc'[e2] = "lint")
            => per_file[ev[e2].uri]
                = DeliverSeparately(before[e2], ev[e2].changes)]_vars

\* C12: an entry comes into the store only by a did_open for its Url; a
\* did_change leaves the Url's entry in place; and a did_close waits while
\* a task holds a guard on the document, and otherwise completes with the
\* Url's entry removed.
C12_Lifecycle ==
    /\ [][\A d \in Docs :
            (per_file[d] = NoEntry /\ per_file'[d] # NoEntry)
            => \E t \in Tasks : /\ pc[t] = "new"
                                /\ ev'[t].kind = "open"
                                /\ ev'[t].uri = d]_vars
    /\ [][\A t \in Tasks :
            (ev[t].kind = "change" /\ pc[t] \in {"loop", "edited"})
            => per_file'[ev[t].uri] # NoEntry]_vars
    /\ [][\A t \in Tasks :
            (pc[t] = "new" /\ pc'[t] # "new" /\ ev'[t].kind = "close")
            => IF \E u \in Tasks \ {t} :
                    guard[u] # "none" /\ ev[u].uri = ev'[t].uri
               THEN pc'[t] = "blocked"
               ELSE /\ pc'[t] = "done"
                    /\ per_file'[ev'[t].uri] = NoEntry]_vars

\* C13: a task waits for an entry only while another task holds a guard on
\* the same document; a guard held on another document never keeps it from
\* the entry it asks for.
C13_CrossDocument ==
    \A t \in Tasks :
        pc[t] = "blocked"
            => \E u \in Tasks \ {t} :
                    guard[u] # "none" /\ ev[u].uri = ev[t].uri

\* The scenario's change as the claim states it, and the change of the
\* char "a" (line 0, characters 3 to 4).
C14_EditAsStated ==
    [ranged |-> TRUE,
     range |-> [start |-> Position(0, 5), end |-> Position(0, 6)],
     text |-> Main]

C14_EditOfA ==
    [ranged |-> TRUE,
     range |-> [start |-> Position(0, 3), end |-> Position(0, 4)],
     text |-> Main]

\* C14 as stated: on the buffer "fn a(){}\n", the ranged change of line 0,
\* characters 5 to 6, to "main" leaves the buffer "fn main(){}\n" and an
\* InputEdit with old_end_byte - start_byte = 1 and
\* new_end_byte - start_byte = 4.
C14_ScenarioAsStated ==
    \A t \in Tasks :
        (pc[t] = "edited" /\ before[t].contents = FnA
            /\ ev[t].changes = <<C14_EditAsStated>>)
        => /\ per_file[ev[t].uri].contents = FnMain
           /\ input_edit[t].old_end_byte - input_edit[t].start_byte = 1
           /\ input_edit[t].new_end_byte - input_edit[t].start_byte = 4

\* C14, amended: on the buffer "fn a(){}\n", the ranged change of line 0,
\* characters 3 to 4, to "main" leaves the buffer "fn main(){}\n" and an
\* InputEdit with old_end_byte - start_byte = 1 and
\* new_end_byte - start_byte = 4.
C14_ScenarioRename ==
    \A t \in Tasks :
        (pc[t] = "edited" /\ before[t].contents = FnA
            /\ ev[t].changes = <<C14_EditOfA>>)
        => /\ per_file[ev[t].uri].contents = FnMain
           /\ input_edit[t].old_end_byte - input_edit[t].start_byte = 1
           /\ input_edit[t].new_end_byte - input_edit[t].start_byte = 4

\* C14's case: the change of characters 3 to 4 has been applied to
\* "fn a(){}\n".
C14_Witness ==
    \E t \in Tasks :
        /\ pc[t] = "edited"
        /\ before[t].contents = FnA
        /\ ev[t].changes = <<C14_EditOfA>>
        /\ input_edit[t].ranged

\* C15: in a document whose line 0 is five one-byte chars and a line
\* break, followed by a second line, the diagnostic of a violation of bytes
\* [3, 7) has the range (line 0, character 3) to (line 1, character 1).
C15_ScenarioRange ==
    \A t \in Tasks :
        pc[t] \in {"publish", "awaiting"} =>
            LET contents == per_file[ev[t].uri].contents
            IN  \A k \in 1..Len(violations[t]) :
                    (/\ Len(contents) > 6
                     /\ contents[6] = "\n"
                     /\ \A j \in 1..5 : contents[j] # "\n"
                                        /\ Utf8Len(contents[j]) = 1
                     /\ violations[t][k].range
                            = [start_byte |-> 3, end_byte |-> 7])
                    => diagnostics[t][k].range
                        = [start |-> Position(0, 3), end |-> Position(1, 1)]

\* C15's case: the diagnostic of a violation of bytes [3, 7) is built on
\* the buffer "line1\nline2\n".
C15_Witness ==
    \E t \in Tasks :
        /\ pc[t] = "publish"
        /\ per_file[ev[t].uri].contents = Line1Line2
        /\ Len(violations[t]) = 1
        /\ violations[t][1].range = [start_byte |-> 3, end_byte |-> 7]
        /\ Len(diagnostics[t]) = 1

\* C16: for a ranged change whose range is in bounds of the buffer, the
\* three points of the InputEdit are the (row, column in bytes) of its
\* three byte offsets: start_position and old_end_position in the buffer
\* before the change, new_end_position in the buffer after it.
C16_DescriptorPoints ==
    [][\A t \in Tasks :
        LET uri == ev[t].uri
            pre == per_file[uri].contents
            post == per_file'[uri].contents
        IN
        (pc[t] = "loop" /\ pc'[t] = "edited" /\ input_edit'[t].ranged
            /\ EditorRangeValid(pre, ev[t].changes[idx[t]].range))
            => /\ input_edit'[t].start_position
                    = byte_offset_to_point(pre, input_edit'[t].start_byte)
               /\ input_edit'[t].old_end_position
                    = byte_offset_to_point(pre, input_edit'[t].old_end_byte)
               /\ input_edit'[t].new_end_position
                    = byte_offset_to_point(post,
                                           input_edit'[t].new_end_byte)]_vars

\* C17, amended: from the end of a did_change's loop to its lint pass no
\* step changes the document's entry and no other task takes a step, and
\* the lint pass derives the violations and the diagnostics from that
\* entry; the RefMut is dropped at the loop's end and a Ref taken for the
\* lint pass, with no suspension point between the two.
C17_LintsOwnState ==
    [][\A t \in Tasks :
        LET per_file_state == per_file[ev[t].uri]
        IN
        (ev[t].kind = "change" /\ pc[t] = "lint")
            => /\ per_file'[ev[t].uri] = per_file_state
               /\ \A u \in Tasks \ {t} : pc'[u] = pc[u]
               /\ pc'[t] = "publish"
                    => /\ violations'[t] \in
                            run_for_slice(per_file_state.contents,
                                          per_file_state.tree,
                                          Len(violations'[t]))
                       /\ diagnostics'[t] =
                            [k \in 1..Len(violations'[t]) |->
                                Diagnostic(per_file_state.contents,
                                           violations'[t][k])]
                       /\ guard'[t] = "ref"]_vars

\* C17 as stated: the same, with the exclusive guard held from the first
\* mutation until the diagnostics have been derived.
C17_SingleCriticalSection ==
    /\ C17_LintsOwnState
    /\ [](\A t \in Tasks :
            (ev[t].kind = "change" /\ pc[t] \in {"loop", "edited", "lint"})
                => guard[t] = "refmut")

\* C17's case: a did_change has linted the entry its own changes left and
\* found a violation, while another task is suspended in
\* publish_diagnostics.
C17_Witness ==
    \E t \in Tasks :
        /\ ev[t].kind = "change"
        /\ pc[t] = "publish"
        /\ Len(diagnostics[t]) = 1
        /\ \E u \in Tasks \ {t} : pc[u] = "awaiting"

\* C18: no task ever waits for an entry that a suspended task's guard
\* keeps from it (the wait would hold the thread the suspended task needs
\* to resume and release), and a task that is done holds no guard.
C18_RunsToCompletion ==
    \A t \in Tasks :
        /\ pc[t] # "blocked"
        /\ pc[t] = "done" => guard[t] = "none"

\* What the lint pass can publish for an entry.
PublishableFor(file_state) ==
    {[k \in 1..Len(vs) |-> Diagnostic(file_state.contents, vs[k])] :
        vs \in run_for_slice(file_state.contents, file_state.tree, 1)}

\* C19: from the lint pass of a task to the completion of its publication
\* the task holds a Ref and no step changes the document's entry; the set
\* the completion hands to the client is one the lint pass can derive from
\* the entry as it is at that moment; and when every event that arrived
\* has been handled, the set the client holds for a document in the store
\* is one derivable from the document's final entry.
C19_NeverStale ==
    /\ [][\A t \in Tasks :
            pc[t] \in {"publish", "awaiting"}
            => /\ guard[t] = "ref"
               /\ per_file'[ev[t].uri] = per_file[ev[t].uri]
               /\ pc'[t] = "done"
                    => client'[ev[t].uri]
                        \in PublishableFor(per_file'[ev[t].uri])]_vars
    /\ []((\A t \in Tasks : pc[t] \in {"new", "done"})
            => \A d \in Docs :
                per_file[d] # NoEntry
                    => client[d] \in PublishableFor(per_file[d]))

\* C19's case: three events have been handled, the last a did_change, and
\* the client holds a diagnostic for the changed buffer.
C19_Witness ==
    /\ \A t \in Tasks : pc[t] = "done"
    /\ ev[MaxTasks].kind = "change"
    /\ per_file[ev[MaxTasks].uri].contents # <<>>
    /\ Len(client[ev[MaxTasks].uri]) = 1
    /\ client[ev[MaxTasks].uri][1].message # "none"

\* C20: a step of a handler leaves the entry of every document but the
\* handler's own as it was; and the step that applies a ranged change
\* builds start_byte <= old_end_byte, keeps the bytes before start_byte,
\* keeps the bytes from old_end_byte on (now from new_end_byte on), and
\* changes the byte length by
\* (new_end_byte - start_byte) - (old_end_byte - start_byte).
C20_FrameAndBytes ==
    [][\A t \in Tasks :
        LET uri == ev'[t].uri
            pre == Bytes(per_file[uri].contents)
            post == Bytes(per_file'[uri].contents)
            e == input_edit'[t]
        IN
        /\ pc'[t] # pc[t]
            => \A d \in Docs \ {uri} : per_file'[d] = per_file[d]
        /\ (pc[t] = "loop" /\ pc'[t] = "edited" /\ e.ranged)
            => /\ e.start_byte <= e.old_end_byte
               /\ SubSeq(post, 1, e.start_byte)
                    = SubSeq(pre, 1, e.start_byte)
               /\ SubSeq(post, e.new_end_byte + 1, Len(post))
                    = SubSeq(pre, e.old_end_byte + 1, Len(pre))
               /\ Len(post) = Len(pre) - (e.old_end_byte - e.start_byte)
                                + (e.new_end_byte - e.start_byte)]_vars

\* C20's case: a ranged change that removes bytes after the start of the
\* buffer and before its end has been applied, while the other document
\* has an entry with text.
C20_Witness ==
    \E t \in Tasks :
        /\ pc[t] = "edited"
        /\ input_edit[t].ranged
        /\ input_edit[t].start_byte > 0
        /\ input_edit[t].old_end_byte > input_edit[t].start_byte
        /\ input_edit[t].new_end_byte
            < len_bytes(per_file[ev[t].uri].contents)
        /\ \E d \in Docs \ {ev[t].uri} :
                per_file[d] # NoEntry /\ per_file[d].contents # <<>>

====
